---- MODULE Spec2Model ----
(***************************************************************************)
(* Model of railway_host.py: the query_employee_data tool.                 *)
(*                                                                         *)
(* call_tool validates the SQL text (Rule 1: starts with SELECT, Rule 2:   *)
(* no forbidden substring), execute_query opens one connection, runs the   *)
(* statement, fetches the rows and closes the connection in its finally    *)
(* clause; call_tool stamps executed_query and serializes the envelope.    *)
(*                                                                         *)
(* A text (the sql argument and what is made of it) is the sequence of     *)
(* its code points; names and messages, which are only compared, are       *)
(* strings.                                                                *)
(***************************************************************************)
EXTENDS Integers, Sequences, FiniteSets, TLC

\* ------------------------------------------------------------ bounds ----

\* Invocations of call_tool that may be in flight together.
NumInvocations == 2
\* Longest run of leading / trailing whitespace put around a generated text.
MaxPad == 1
\* Most rows the database returns for one statement.
MaxRows == 1

Invocations == 1..NumInvocations

\* -------------------------------------------------------- str methods ----

\* A text is the sequence of its characters' code points (ord), so that it
\* holds every character a Python str does.  The literals of this module
\* are written as strings and converted by Code; they hold the characters
\* below only.
Ascii32 == " !"
Ascii35 == "#$%&'()*+,-./0123456789:;<=>?@ABCDEFGHIJKLMNOPQRSTUVWXYZ["
Ascii93 == "]^_"
Ascii97 == "abcdefghijklmnopqrstuvwxyz{|}~"

\* The position of the one-character string c in table, or 0.
IndexIn(table, c) ==
    IF \E k \in 1..Len(table) : SubSeq(table, k, k) = c
    THEN CHOOSE k \in 1..Len(table) : SubSeq(table, k, k) = c
    ELSE 0

\* ord(c) of a one-character string.
Ord(c) ==
    CASE c = "\t" -> 9 [] c = "\n" -> 10 [] c = "\f" -> 12 [] c = "\r" -> 13
      [] IndexIn(Ascii97, c) > 0 -> 96 + IndexIn(Ascii97, c)
      [] IndexIn(Ascii35, c) > 0 -> 34 + IndexIn(Ascii35, c)
      [] IndexIn(Ascii32, c) > 0 -> 31 + IndexIn(Ascii32, c)
      [] IndexIn(Ascii93, c) > 0 -> 92 + IndexIn(Ascii93, c)

\* The text of a string literal.
Code(s) == [k \in 1..Len(s) |-> Ord(SubSeq(s, k, k))]

\* The code points str.strip() removes (those with str.isspace()).
Whitespace == {9, 10, 11, 12, 13, 28, 29, 30, 31, 32, 133, 160, 5760, 8192,
               8193, 8194, 8195, 8196, 8197, 8198, 8199, 8200, 8201, 8202,
               8232, 8233, 8239, 8287, 12288}

\* The characters above U+007F whose upper case is one character, as runs
\* <<first, last, step, offset>>: first, first + step, ..., last each map to
\* themselves plus offset (Unicode 14.0.0, the tables of Python 3.11).
UpperRanges ==
    { <<181, 181, 1, 743>>, <<224, 246, 1, -32>>, <<248, 254, 1, -32>>,
      <<255, 255, 1, 121>>, <<257, 303, 2, -1>>, <<305, 305, 1, -232>>,
      <<307, 311, 2, -1>>, <<314, 328, 2, -1>>, <<331, 375, 2, -1>>, <<378, 382, 2, -1>>,
      <<383, 383, 1, -300>>, <<384, 384, 1, 195>>, <<387, 389, 2, -1>>,
      <<392, 392, 1, -1>>, <<396, 396, 1, -1>>, <<402, 402, 1, -1>>, <<405, 405, 1, 97>>,
      <<409, 409, 1, -1>>, <<410, 410, 1, 163>>, <<414, 414, 1, 130>>,
      <<417, 421, 2, -1>>, <<424, 424, 1, -1>>, <<429, 429, 1, -1>>, <<432, 432, 1, -1>>,
      <<436, 438, 2, -1>>, <<441, 441, 1, -1>>, <<445, 445, 1, -1>>, <<447, 447, 1, 56>>,
      <<453, 453, 1, -1>>, <<454, 454, 1, -2>>, <<456, 456, 1, -1>>, <<457, 457, 1, -2>>,
      <<459, 459, 1, -1>>, <<460, 460, 1, -2>>, <<462, 476, 2, -1>>,
      <<477, 477, 1, -79>>, <<479, 495, 2, -1>>, <<498, 498, 1, -1>>,
      <<499, 499, 1, -2>>, <<501, 501, 1, -1>>, <<505, 543, 2, -1>>, <<547, 563, 2, -1>>,
      <<572, 572, 1, -1>>, <<575, 576, 1, 10815>>, <<578, 578, 1, -1>>,
      <<583, 591, 2, -1>>, <<592, 592, 1, 10783>>, <<593, 593, 1, 10780>>,
      <<594, 594, 1, 10782>>, <<595, 595, 1, -210>>, <<596, 596, 1, -206>>,
      <<598, 599, 1, -205>>, <<601, 601, 1, -202>>, <<603, 603, 1, -203>>,
      <<604, 604, 1, 42319>>, <<608, 608, 1, -205>>, <<609, 609, 1, 42315>>,
      <<611, 611, 1, -207>>, <<613, 613, 1, 42280>>, <<614, 614, 1, 42308>>,
      <<616, 616, 1, -209>>, <<617, 617, 1, -211>>, <<618, 618, 1, 42308>>,
      <<619, 619, 1, 10743>>, <<620, 620, 1, 42305>>, <<623, 623, 1, -211>>,
      <<625, 625, 1, 10749>>, <<626, 626, 1, -213>>, <<629, 629, 1, -214>>,
      <<637, 637, 1, 10727>>, <<640, 640, 1, -218>>, <<642, 642, 1, 42307>>,
      <<643, 643, 1, -218>>, <<647, 647, 1, 42282>>, <<648, 648, 1, -218>>,
      <<649, 649, 1, -69>>, <<650, 651, 1, -217>>, <<652, 652, 1, -71>>,
      <<658, 658, 1, -219>>, <<669, 669, 1, 42261>>, <<670, 670, 1, 42258>>,
      <<837, 837, 1, 84>>, <<881, 883, 2, -1>>, <<887, 887, 1, -1>>,
      <<891, 893, 1, 130>>, <<940, 940, 1, -38>>, <<941, 943, 1, -37>>,
      <<945, 961, 1, -32>>, <<962, 962, 1, -31>>, <<963, 971, 1, -32>>,
      <<972, 972, 1, -64>>, <<973, 974, 1, -63>>, <<976, 976, 1, -62>>,
      <<977, 977, 1, -57>>, <<981, 981, 1, -47>>, <<982, 982, 1, -54>>,
      <<983, 983, 1, -8>>, <<985, 1007, 2, -1>>, <<1008, 1008, 1, -86>>,
      <<1009, 1009, 1, -80>>, <<1010, 1010, 1, 7>>, <<1011, 1011, 1, -116>>,
      <<1013, 1013, 1, -96>>, <<1016, 1016, 1, -1>>, <<1019, 1019, 1, -1>>,
      <<1072, 1103, 1, -32>>, <<1104, 1119, 1, -80>>, <<1121, 1153, 2, -1>>,
      <<1163, 1215, 2, -1>>, <<1218, 1230, 2, -1>>, <<1231, 1231, 1, -15>>,
      <<1233, 1327, 2, -1>>, <<1377, 1414, 1, -48>>, <<4304, 4346, 1, 3008>>,
      <<4349, 4351, 1, 3008>>, <<5112, 5117, 1, -8>>, <<7296, 7296, 1, -6254>>,
      <<7297, 7297, 1, -6253>>, <<7298, 7298, 1, -6244>>, <<7299, 7300, 1, -6242>>,
      <<7301, 7301, 1, -6243>>, <<7302, 7302, 1, -6236>>, <<7303, 7303, 1, -6181>>,
      <<7304, 7304, 1, 35266>>, <<7545, 7545, 1, 35332>>, <<7549, 7549, 1, 3814>>,
      <<7566, 7566, 1, 35384>>, <<7681, 7829, 2, -1>>, <<7835, 7835, 1, -59>>,
      <<7841, 7935, 2, -1>>, <<7936, 7943, 1, 8>>, <<7952, 7957, 1, 8>>,
      <<7968, 7975, 1, 8>>, <<7984, 7991, 1, 8>>, <<8000, 8005, 1, 8>>,
      <<8017, 8023, 2, 8>>, <<8032, 8039, 1, 8>>, <<8048, 8049, 1, 74>>,
      <<8050, 8053, 1, 86>>, <<8054, 8055, 1, 100>>, <<8056, 8057, 1, 128>>,
      <<8058, 8059, 1, 112>>, <<8060, 8061, 1, 126>>, <<8112, 8113, 1, 8>>,
      <<8126, 8126, 1, -7205>>, <<8144, 8145, 1, 8>>, <<8160, 8161, 1, 8>>,
      <<8165, 8165, 1, 7>>, <<8526, 8526, 1, -28>>, <<8560, 8575, 1, -16>>,
      <<8580, 8580, 1, -1>>, <<9424, 9449, 1, -26>>, <<11312, 11359, 1, -48>>,
      <<11361, 11361, 1, -1>>, <<11365, 11365, 1, -10795>>, <<11366, 11366, 1, -10792>>,
      <<11368, 11372, 2, -1>>, <<11379, 11379, 1, -1>>, <<11382, 11382, 1, -1>>,
      <<11393, 11491, 2, -1>>, <<11500, 11502, 2, -1>>, <<11507, 11507, 1, -1>>,
      <<11520, 11557, 1, -7264>>, <<11559, 11559, 1, -7264>>, <<11565, 11565, 1, -7264>>,
      <<42561, 42605, 2, -1>>, <<42625, 42651, 2, -1>>, <<42787, 42799, 2, -1>>,
      <<42803, 42863, 2, -1>>, <<42874, 42876, 2, -1>>, <<42879, 42887, 2, -1>>,
      <<42892, 42892, 1, -1>>, <<42897, 42899, 2, -1>>, <<42900, 42900, 1, 48>>,
      <<42903, 42921, 2, -1>>, <<42933, 42947, 2, -1>>, <<42952, 42954, 2, -1>>,
      <<42961, 42961, 1, -1>>, <<42967, 42969, 2, -1>>, <<42998, 42998, 1, -1>>,
      <<43859, 43859, 1, -928>>, <<43888, 43967, 1, -38864>>, <<65345, 65370, 1, -32>>,
      <<66600, 66639, 1, -40>>, <<66776, 66811, 1, -40>>, <<66967, 67003, 2, -39>>,
      <<66968, 66976, 2, -39>>, <<66980, 66992, 2, -39>>, <<66996, 67000, 2, -39>>,
      <<67004, 67004, 1, -39>>, <<68800, 68850, 1, -64>>, <<71872, 71903, 1, -32>>,
      <<93792, 93823, 1, -32>>, <<125218, 125251, 1, -34>> }

\* The characters whose upper case is several characters.
UpperSpecial ==
    { <<223, <<83, 83>>>>, <<329, <<700, 78>>>>, <<496, <<74, 780>>>>,
      <<912, <<921, 776, 769>>>>, <<944, <<933, 776, 769>>>>, <<1415, <<1333, 1362>>>>,
      <<7830, <<72, 817>>>>, <<7831, <<84, 776>>>>, <<7832, <<87, 778>>>>,
      <<7833, <<89, 778>>>>, <<7834, <<65, 702>>>>, <<8016, <<933, 787>>>>,
      <<8018, <<933, 787, 768>>>>, <<8020, <<933, 787, 769>>>>,
      <<8022, <<933, 787, 834>>>>, <<8064, <<7944, 921>>>>, <<8065, <<7945, 921>>>>,
      <<8066, <<7946, 921>>>>, <<8067, <<7947, 921>>>>, <<8068, <<7948, 921>>>>,
      <<8069, <<7949, 921>>>>, <<8070, <<7950, 921>>>>, <<8071, <<7951, 921>>>>,
      <<8072, <<7944, 921>>>>, <<8073, <<7945, 921>>>>, <<8074, <<7946, 921>>>>,
      <<8075, <<7947, 921>>>>, <<8076, <<7948, 921>>>>, <<8077, <<7949, 921>>>>,
      <<8078, <<7950, 921>>>>, <<8079, <<7951, 921>>>>, <<8080, <<7976, 921>>>>,
      <<8081, <<7977, 921>>>>, <<8082, <<7978, 921>>>>, <<8083, <<7979, 921>>>>,
      <<8084, <<7980, 921>>>>, <<8085, <<7981, 921>>>>, <<8086, <<7982, 921>>>>,
      <<8087, <<7983, 921>>>>, <<8088, <<7976, 921>>>>, <<8089, <<7977, 921>>>>,
      <<8090, <<7978, 921>>>>, <<8091, <<7979, 921>>>>, <<8092, <<7980, 921>>>>,
      <<8093, <<7981, 921>>>>, <<8094, <<7982, 921>>>>, <<8095, <<7983, 921>>>>,
      <<8096, <<8040, 921>>>>, <<8097, <<8041, 921>>>>, <<8098, <<8042, 921>>>>,
      <<8099, <<8043, 921>>>>, <<8100, <<8044, 921>>>>, <<8101, <<8045, 921>>>>,
      <<8102, <<8046, 921>>>>, <<8103, <<8047, 921>>>>, <<8104, <<8040, 921>>>>,
      <<8105, <<8041, 921>>>>, <<8106, <<8042, 921>>>>, <<8107, <<8043, 921>>>>,
      <<8108, <<8044, 921>>>>, <<8109, <<8045, 921>>>>, <<8110, <<8046, 921>>>>,
      <<8111, <<8047, 921>>>>, <<8114, <<8122, 921>>>>, <<8115, <<913, 921>>>>,
      <<8116, <<902, 921>>>>, <<8118, <<913, 834>>>>, <<8119, <<913, 834, 921>>>>,
      <<8124, <<913, 921>>>>, <<8130, <<8138, 921>>>>, <<8131, <<919, 921>>>>,
      <<8132, <<905, 921>>>>, <<8134, <<919, 834>>>>, <<8135, <<919, 834, 921>>>>,
      <<8140, <<919, 921>>>>, <<8146, <<921, 776, 768>>>>, <<8147, <<921, 776, 769>>>>,
      <<8150, <<921, 834>>>>, <<8151, <<921, 776, 834>>>>, <<8162, <<933, 776, 768>>>>,
      <<8163, <<933, 776, 769>>>>, <<8164, <<929, 787>>>>, <<8166, <<933, 834>>>>,
      <<8167, <<933, 776, 834>>>>, <<8178, <<8186, 921>>>>, <<8179, <<937, 921>>>>,
      <<8180, <<911, 921>>>>, <<8182, <<937, 834>>>>, <<8183, <<937, 834, 921>>>>,
      <<8188, <<937, 921>>>>, <<64256, <<70, 70>>>>, <<64257, <<70, 73>>>>,
      <<64258, <<70, 76>>>>, <<64259, <<70, 70, 73>>>>, <<64260, <<70, 70, 76>>>>,
      <<64261, <<83, 84>>>>, <<64262, <<83, 84>>>>, <<64275, <<1348, 1350>>>>,
      <<64276, <<1348, 1333>>>>, <<64277, <<1348, 1339>>>>, <<64278, <<1358, 1350>>>>,
      <<64279, <<1348, 1341>>>> }

InRange(c, r) == r[1] <= c /\ c <= r[2] /\ (c - r[1]) % r[3] = 0

\* str.upper() on one character: the text of its upper case.
UpperChar(c) ==
    IF c <= 127 THEN (IF 97 <= c /\ c <= 122 THEN <<c - 32>> ELSE <<c>>)
    ELSE IF \E r \in UpperRanges : InRange(c, r)
    THEN <<c + (CHOOSE r \in UpperRanges : InRange(c, r))[4]>>
    ELSE IF \E p \in UpperSpecial : p[1] = c
    THEN (CHOOSE p \in UpperSpecial : p[1] = c)[2]
    ELSE <<c>>

\* str.upper()
RECURSIVE Upper(_)
Upper(s) ==
    IF s = <<>> THEN <<>> ELSE UpperChar(Head(s)) \o Upper(Tail(s))

RECURSIVE LStrip(_)
LStrip(s) ==
    IF s # <<>> /\ Head(s) \in Whitespace THEN LStrip(Tail(s)) ELSE s

RECURSIVE RStrip(_)
RStrip(s) ==
    IF s # <<>> /\ s[Len(s)] \in Whitespace THEN RStrip(SubSeq(s, 1, Len(s) - 1)) ELSE s

\* str.strip()
Strip(s) == RStrip(LStrip(s))

\* str.startswith(p)
StartsWith(s, p) == Len(s) >= Len(p) /\ SubSeq(s, 1, Len(p)) = p

\* `k in s` for strings
Contains(s, k) ==
    \E j \in 1..(Len(s) - Len(k) + 1) : SubSeq(s, j, j + Len(k) - 1) = k

\* ---------------------------------------------------------- validator ----

ToolName == "query_employee_data"

\* The text 'SELECT' of startswith.
SelectWord == Code("SELECT")

ForbiddenWithoutTruncate ==
    <<Code("INSERT"), Code("UPDATE"), Code("DELETE"), Code("DROP"), Code("CREATE"), Code("ALTER")>>

\* forbidden = [...]
Forbidden ==
    <<Code("INSERT"), Code("UPDATE"), Code("DELETE"), Code("DROP"), Code("CREATE"), Code("ALTER"),
      Code("TRUNCATE")>>

OnlySelectMsg == "Only SELECT queries are allowed"
ForbiddenMsg == "Query contains forbidden operations"
\* The validation's verdict for a text that passed both rules.
Accept == "ACCEPT"

AnyForbidden(text) == \E n \in 1..Len(Forbidden) : Contains(text, Forbidden[n])

\* Mutant: the forbidden scan runs before the statement-type test.
ValidateRule2First(sql) ==
    LET sql_upper == Upper(sql) IN
    IF AnyForbidden(sql_upper) THEN ForbiddenMsg
    ELSE IF ~StartsWith(sql_upper, SelectWord) THEN OnlySelectMsg
    ELSE Accept

\* Mutant: the forbidden scan reads sql instead of sql_upper.
ValidateCaseSensitive(sql) ==
    LET sql_upper == Upper(sql) IN
    IF ~StartsWith(sql_upper, SelectWord) THEN OnlySelectMsg
    ELSE IF AnyForbidden(sql) THEN ForbiddenMsg
    ELSE Accept

\* The security validation of call_tool: the rejection's error text, or Accept.
Validate(sql) ==
    LET sql_upper == Upper(sql) IN
    IF ~StartsWith(sql_upper, SelectWord) THEN OnlySelectMsg
    ELSE IF AnyForbidden(sql_upper) THEN ForbiddenMsg
    ELSE Accept

\* ------------------------------------------------------------ inputs ----

\* A mapping with no keys (an empty dict).
EmptyDict == [k \in {} |-> ""]

\* Argument values: a Python str, or None.
Str(s) == [str |-> s]
Null == [null |-> TRUE]
IsStr(v) == "str" \in DOMAIN v

LeftPad(n) == SubSeq(" \t\n", 1, n)
RightPad(n) == SubSeq("\n\r ", 1, n)

Heads == {"SELECT", "select", "SeLeCt", "SELEC", "SELECTED", "DROP", "drop",
          "INSERT INTO t SELECT", "(SELECT", "WITH x AS", ""}
Mids == {"", " * FROM public.employee WHERE c = ", " 1; "}
KeywordForms == {"INSERT", "insert", "Insert", "UPDATE", "last_updated", "DELETE",
                 "is_deleted", "DROP", "'drop'", "Dropbox", "CREATE", "created_at",
                 "ALTER", "alternate", "TRUNCATE", "truncate", "TrUnCaTe"}
NearMisses == {"", "INSER T", "UP DATE", "DELET", "DR0P", "CREAT", "ALTR", "TRUNCAT",
               "salary", "LIMIT 100"}
Tails == {"", " x"}

\* The generated SQL texts: a head, a keyword (or a near miss) after a
\* middle part, a tail, and whitespace around.
SqlTexts ==
    { l \o h \o m \o k \o t \o r :
        l \in {Code(LeftPad(n)) : n \in 0..MaxPad},
        r \in {Code(RightPad(n)) : n \in 0..MaxPad},
        h \in {Code(x) : x \in Heads}, m \in {Code(x) : x \in Mids},
        k \in {Code(x) : x \in KeywordForms \cup NearMisses},
        t \in {Code(x) : x \in Tails} }

\* The texts of the tool description's examples and of the scenarios.
ScenarioTexts ==
    { Code(s) : s \in
        { "SELECT * FROM public.employee WHERE department = 'Engineering' LIMIT 100",
          "SELECT first_name, last_name, department, salary FROM public.employee ORDER BY salary DESC LIMIT 5",
          "DROP TABLE employee",
          "SELECT * FROM employee; DROP TABLE employee;",
          "SELECT 'DROP' AS x",
          "SELECT 1; --",
          "   ", "" } }

\* Texts with each whitespace character before, after and inside a
\* statement.
WhitespaceTexts ==
    UNION { { <<c>> \o Code("select 1"), Code("SELECT 1") \o <<c>>,
              <<c, c>> \o Code("Select") \o <<c>> \o Code("1") \o <<c>>,
              <<c>> \o Code("DROP TABLE employee") \o <<c>>,
              Code("SELECT") \o <<c>> \o Code("drop") \o <<c>>, <<c>> } :
            c \in Whitespace }

\* Texts with characters strip() keeps and characters upper() changes:
\* control characters and the zero-width space around a statement; the long
\* s (383), the dotless i (305) and the ligatures fi (64257) and st (64262),
\* whose upper cases are ASCII letters; the sharp s (223), the micro sign
\* (181) and y with diaeresis (255).
UnicodeTexts ==
    { <<27>> \o Code("SELECT 1"), Code("SELECT 1") \o <<8>>, <<0>> \o Code("select 1"),
      <<8203>> \o Code("SELECT 1"), Code("SELECT 1") \o <<8203, 32>>,
      <<383>> \o Code("elect 1"), <<8195, 383>> \o Code("ELECT * FROM t") \o <<160, 133>>,
      Code("select ") \o <<305>> \o Code("nsert"), Code("SELECT ") \o <<305>> \o Code("d"),
      Code("select pro") \o <<64257>> \o Code("le"), Code("select al") \o <<64262>> \o Code("er"),
      Code("select in") \o <<383>> \o Code("ert"), Code("select dro") \o <<64262>>,
      Code("select 'Stra") \o <<223>> \o Code("e'"), Code("select ") \o <<181, 255>>,
      <<223>> \o Code("elect 1"), Code("SELECT ") \o <<8490>> }

Request(name, arguments) == [name |-> name, arguments |-> arguments]

\* Every request of the sequential specification.
AllRequests ==
    { Request(ToolName, [sql |-> Str(s)]) :
        s \in SqlTexts \cup ScenarioTexts \cup WhitespaceTexts \cup UnicodeTexts }
    \cup { Request(ToolName, a) : a \in {EmptyDict, [sql |-> Null], [query |-> Str(Code("SELECT 1"))]} }
    \cup { Request(n, a) : n \in {"list_employees", "QUERY_EMPLOYEE_DATA", ""},
                           a \in {EmptyDict, [sql |-> Str(Code("SELECT 1"))],
                                   [sql |-> Str(Code("DROP TABLE employee"))]} }

\* The requests of the concurrent specification.
ConcurrentRequests ==
    { Request(ToolName, [sql |-> Str(s)]) :
        s \in { <<11, 160>> \o Code(" select 1\n"),
                Code("SELECT * FROM public.employee WHERE department = 'Engineering' LIMIT 100"),
                Code("DROP TABLE employee"),
                Code("select * from employee; drop table employee;") } }
    \cup { Request(ToolName, EmptyDict), Request("list_employees", [sql |-> Str(Code("SELECT 1"))]) }

\* ---------------------------------------------------------- database ----

\* The driver's errors, by the step that raises them; msg is str(e).
Error(step, msg) == [step |-> step, msg |-> msg]
ConnectErrors == { Error("connect", "could not connect to server: Connection refused"),
                   Error("connect", "password authentication failed for user") }
CursorErrors == { Error("cursor", "connection already closed") }
ExecuteErrors == { Error("execute", "column does not exist"),
                   Error("execute", "canceling statement due to statement timeout") }
FetchErrors == { Error("fetch", "no results to fetch") }

\* A numeric column arrives as a Decimal, which json cannot encode itself.
Decimal(text) == [decimal |-> text]

\* The n-th row of a result set, as RealDictCursor returns it.
EmployeeRow(n) == [id |-> n, department |-> "Engineering", salary |-> Decimal("100000.00")]

\* cur.fetchall() returning n rows.
FetchAll(n) == [j \in 1..n |-> EmployeeRow(j)]

\* ------------------------------------------------------------- state ----

VARIABLES
    pc,               \* where each invocation of call_tool is
    req,              \* its tool name and argument mapping
    sql,              \* call_tool's local sql (the trimmed text)
    conn,             \* execute_query's local conn: "unbound", "open", "closed"
    dbOpen,           \* the invocations whose connection the database holds open
    statement,        \* the text cur.execute was given
    fault,            \* the driver error message raised in execute_query, or NoFault
    exc,              \* the exception in flight or escaped from call_tool, or NoExc
    result,           \* execute_query's result dict
    resp,             \* the JSON object call_tool returned as response content
    connectAttempts,  \* calls of psycopg2.connect
    executeAttempts   \* calls of cur.execute

vars == <<pc, req, sql, conn, dbOpen, statement, fault, exc, result, resp,
          connectAttempts, executeAttempts>>

NoFault == "<no fault>"
NoExc == "<no exception>"
\* No text: -1 is no code point.
NoStatement == <<-1>>
NoRequest == Request("", EmptyDict)

Init ==
    /\ pc = [i \in Invocations |-> "idle"]
    /\ req = [i \in Invocations |-> NoRequest]
    /\ sql = [i \in Invocations |-> <<>>]
    /\ conn = [i \in Invocations |-> "unbound"]
    /\ dbOpen = {}
    /\ statement = [i \in Invocations |-> NoStatement]
    /\ fault = [i \in Invocations |-> NoFault]
    /\ exc = [i \in Invocations |-> NoExc]
    /\ result = [i \in Invocations |-> EmptyDict]
    /\ resp = [i \in Invocations |-> EmptyDict]
    /\ connectAttempts = [i \in Invocations |-> 0]
    /\ executeAttempts = [i \in Invocations |-> 0]

\* --------------------------------------------------------- envelopes ----

\* The rejection call_tool returns for a text the validation refused.
RejectEnvelope(reason) == [success |-> FALSE, error |-> reason]

UnknownToolEnvelope(name) == [error |-> "Unknown tool: " \o name]

\* Mutant: the failure dict also carries an empty data and a row_count.
FailureEnvelopeWithData(e) ==
    [success |-> FALSE, error |-> e.msg, data |-> <<>>, row_count |-> 0]

\* The dict of execute_query's except clause.
FailureEnvelope(e) == [success |-> FALSE, error |-> e.msg]

\* The dict execute_query returns for the fetched rows.
SuccessEnvelope(rows) == [success |-> TRUE, data |-> rows, row_count |-> Len(rows)]

\* Mutant: the upper-cased text is stamped.
StampUpper(r, text) ==
    [k \in DOMAIN r \cup {"executed_query"} |->
        IF k = "executed_query" THEN Upper(text) ELSE r[k]]

\* Mutant: only a successful result is stamped.
StampOnSuccess(r, text) ==
    IF r.success
    THEN [k \in DOMAIN r \cup {"executed_query"} |->
            IF k = "executed_query" THEN text ELSE r[k]]
    ELSE r

\* result["executed_query"] = sql
Stamp(r, text) ==
    [k \in DOMAIN r \cup {"executed_query"} |->
        IF k = "executed_query" THEN text ELSE r[k]]

\* json's default=str on a row: the Decimal becomes its text.
JsonRow(row) == [id |-> row.id, department |-> row.department, salary |-> row.salary.decimal]

\* json.dumps(result, indent=2, default=str), as the JSON object the text holds.
JsonDumps(r) ==
    [k \in DOMAIN r |->
        IF k = "data" THEN [j \in 1..Len(r.data) |-> JsonRow(r.data[j])] ELSE r[k]]

\* ----------------------------------------------------------- call_tool ----

\* call_tool from its entry to its first return, raise or call of
\* execute_query: the tool name test, arguments["sql"].strip() and the
\* security validation.
CallTool(i, requests) ==
    /\ pc[i] = "idle"
    /\ \E r \in requests :
        /\ req' = [req EXCEPT ![i] = r]
        /\ IF r.name # ToolName
           THEN /\ resp' = [resp EXCEPT ![i] = UnknownToolEnvelope(r.name)]
                /\ pc' = [pc EXCEPT ![i] = "returned"]
                /\ UNCHANGED <<sql, exc>>
           ELSE IF "sql" \notin DOMAIN r.arguments
           THEN /\ exc' = [exc EXCEPT ![i] = "KeyError: 'sql'"]
                /\ pc' = [pc EXCEPT ![i] = "raised"]
                /\ UNCHANGED <<sql, resp>>
           ELSE IF ~IsStr(r.arguments.sql)
           THEN /\ exc' = [exc EXCEPT ![i] = "AttributeError: 'NoneType' object has no attribute 'strip'"]
                /\ pc' = [pc EXCEPT ![i] = "raised"]
                /\ UNCHANGED <<sql, resp>>
           ELSE LET text == Strip(r.arguments.sql.str)
                    verdict == Validate(text)
                IN  /\ sql' = [sql EXCEPT ![i] = text]
                    /\ IF verdict # Accept
                       THEN /\ resp' = [resp EXCEPT ![i] = RejectEnvelope(verdict)]
                            /\ pc' = [pc EXCEPT ![i] = "returned"]
                       ELSE /\ pc' = [pc EXCEPT ![i] = "connect"]
                            /\ UNCHANGED resp
                    /\ UNCHANGED exc
    /\ UNCHANGED <<conn, dbOpen, statement, fault, result, connectAttempts, executeAttempts>>

\* Mutant: the except clause names a class the connect's error is not of.
HandledUnlessConnect(e) == e.step # "connect"

\* `except Exception` catches every error the driver raises.
Handled(e) == TRUE

\* Mutant: a failed step is tried again from the connect.
RaiseAndRetry(i, e) ==
    /\ fault' = [fault EXCEPT ![i] = e.msg]
    /\ pc' = [pc EXCEPT ![i] = "connect"]
    /\ UNCHANGED <<result, exc>>

\* A step of the try block raises e: the except clause builds the failure
\* dict, and control goes to the finally clause.
Raise(i, e) ==
    /\ fault' = [fault EXCEPT ![i] = e.msg]
    /\ IF Handled(e)
       THEN /\ result' = [result EXCEPT ![i] = FailureEnvelope(e)]
            /\ UNCHANGED exc
       ELSE /\ exc' = [exc EXCEPT ![i] = e.msg]
            /\ UNCHANGED result
    /\ pc' = [pc EXCEPT ![i] = "finally"]

\* conn = psycopg2.connect(CONNECTION_STRING)
Connect(i) ==
    /\ pc[i] = "connect"
    /\ connectAttempts' = [connectAttempts EXCEPT ![i] = @ + 1]
    /\ \/ /\ conn' = [conn EXCEPT ![i] = "open"]
          /\ dbOpen' = dbOpen \cup {i}
          /\ pc' = [pc EXCEPT ![i] = "cursor"]
          /\ UNCHANGED <<fault, exc, result>>
       \/ /\ \E e \in ConnectErrors : Raise(i, e)
          /\ UNCHANGED <<conn, dbOpen>>
    /\ UNCHANGED <<req, sql, statement, resp, executeAttempts>>

\* with conn.cursor(cursor_factory=RealDictCursor) as cur
Cursor(i) ==
    /\ pc[i] = "cursor"
    /\ \/ /\ pc' = [pc EXCEPT ![i] = "execute"]
          /\ UNCHANGED <<fault, exc, result>>
       \/ \E e \in CursorErrors : Raise(i, e)
    /\ UNCHANGED <<req, sql, conn, dbOpen, statement, resp, connectAttempts, executeAttempts>>

\* cur.execute(query), query being call_tool's sql
Execute(i) ==
    /\ pc[i] = "execute"
    /\ executeAttempts' = [executeAttempts EXCEPT ![i] = @ + 1]
    /\ statement' = [statement EXCEPT ![i] = sql[i]]
    /\ \/ /\ pc' = [pc EXCEPT ![i] = "fetch"]
          /\ UNCHANGED <<fault, exc, result>>
       \/ \E e \in ExecuteErrors : Raise(i, e)
    /\ UNCHANGED <<req, sql, conn, dbOpen, resp, connectAttempts>>

\* results = cur.fetchall() and the success dict
Fetch(i) ==
    /\ pc[i] = "fetch"
    /\ \/ /\ \E n \in 0..MaxRows :
                result' = [result EXCEPT ![i] = SuccessEnvelope(FetchAll(n))]
          /\ pc' = [pc EXCEPT ![i] = "finally"]
          /\ UNCHANGED <<fault, exc>>
       \/ \E e \in FetchErrors : Raise(i, e)
    /\ UNCHANGED <<req, sql, conn, dbOpen, statement, resp, connectAttempts, executeAttempts>>

\* Mutant: conn.close() at the end of the try block instead of in finally.
ClosesUnlessFault(i) == conn[i] # "unbound" /\ fault[i] = NoFault

\* if 'conn' in locals()
ConnInLocals(i) == conn[i] # "unbound"

\* The finally clause, and execute_query's return (or the escape of an
\* exception the except clause did not catch).
Finally(i) ==
    /\ pc[i] = "finally"
    /\ IF ConnInLocals(i)
       THEN /\ conn' = [conn EXCEPT ![i] = "closed"]
            /\ dbOpen' = dbOpen \ {i}
       ELSE UNCHANGED <<conn, dbOpen>>
    /\ pc' = [pc EXCEPT ![i] = IF exc[i] # NoExc THEN "raised" ELSE "stamp"]
    /\ UNCHANGED <<req, sql, statement, fault, exc, result, resp, connectAttempts, executeAttempts>>

\* result["executed_query"] = sql and the return of the serialized result
ReturnResult(i) ==
    /\ pc[i] = "stamp"
    /\ result' = [result EXCEPT ![i] = Stamp(result[i], sql[i])]
    /\ resp' = [resp EXCEPT ![i] = JsonDumps(Stamp(result[i], sql[i]))]
    /\ pc' = [pc EXCEPT ![i] = "returned"]
    /\ UNCHANGED <<req, sql, conn, dbOpen, statement, fault, exc, connectAttempts, executeAttempts>>

\* ---------------------------------------------------- specifications ----

\* Invocations dispatched concurrently, over the small request set.
Next ==
    \E i \in Invocations :
        \/ CallTool(i, ConcurrentRequests)
        \/ Connect(i)
        \/ Cursor(i)
        \/ Execute(i)
        \/ Fetch(i)
        \/ Finally(i)
        \/ ReturnResult(i)

Spec == Init /\ [][Next]_vars

\* One invocation, over every generated request.
NextSeq ==
    \/ CallTool(1, AllRequests)
    \/ Connect(1)
    \/ Cursor(1)
    \/ Execute(1)
    \/ Fetch(1)
    \/ Finally(1)
    \/ ReturnResult(1)

SpecSeq == Init /\ [][NextSeq]_vars

\* ------------------------------------------------------------ claims ----

\* The invocation is a call of the query tool with a text under "sql".
IsQueryCall(i) ==
    /\ pc[i] # "idle"
    /\ req[i].name = "query_employee_data"
    /\ "sql" \in DOMAIN req[i].arguments
    /\ IsStr(req[i].arguments.sql)

RawSql(i) == req[i].arguments.sql.str
Trimmed(i) == Strip(RawSql(i))
SevenKeywords ==
    { Code(k) : k \in {"INSERT", "UPDATE", "DELETE", "DROP", "CREATE", "ALTER", "TRUNCATE"} }
SelectKeyword == Code("SELECT")
BeginsWithSelect(i) == StartsWith(Upper(Trimmed(i)), SelectKeyword)
HasForbidden(i) == LET text == Upper(Trimmed(i)) IN \E k \in SevenKeywords : Contains(text, k)
Accepted(i) == IsQueryCall(i) /\ BeginsWithSelect(i) /\ ~HasForbidden(i)

\* C1: a query call whose trimmed, upper-cased text does not begin with
\* SELECT has returned the rejection "Only SELECT queries are allowed",
\* whether or not the text holds a forbidden keyword.
C1_Rule1BeforeRule2 ==
    \A i \in Invocations :
        (IsQueryCall(i) /\ ~BeginsWithSelect(i)) =>
            /\ pc[i] = "returned"
            /\ resp[i] = [success |-> FALSE, error |-> "Only SELECT queries are allowed"]

\* A text that fails Rule 1 and holds a forbidden keyword was rejected by Rule 1.
C1_Witness ==
    \E i \in Invocations :
        /\ IsQueryCall(i) /\ ~BeginsWithSelect(i) /\ HasForbidden(i)
        /\ pc[i] = "returned"
        /\ resp[i].error = "Only SELECT queries are allowed"

\* C2: a query call whose trimmed, upper-cased text begins with SELECT and
\* holds one of the seven keywords anywhere has returned the rejection
\* "Query contains forbidden operations".
C2_ForbiddenSubstringRejected ==
    \A i \in Invocations :
        (IsQueryCall(i) /\ BeginsWithSelect(i) /\ HasForbidden(i)) =>
            /\ pc[i] = "returned"
            /\ resp[i] = [success |-> FALSE, error |-> "Query contains forbidden operations"]

\* A SELECT with the keyword in lower case inside a string literal was rejected.
C2_Witness ==
    \E i \in Invocations :
        /\ IsQueryCall(i) /\ BeginsWithSelect(i)
        /\ Contains(RawSql(i), Code("'drop'"))
        /\ pc[i] = "returned"
        /\ resp[i].error = "Query contains forbidden operations"

\* C3: a connection attempt, a connection or a statement at the database
\* exists only for a query call whose text the two rules accept.
C3_DatabaseOnlyAfterAccept ==
    \A i \in Invocations :
        (connectAttempts[i] > 0 \/ conn[i] # "unbound" \/ i \in dbOpen
            \/ executeAttempts[i] > 0 \/ statement[i] # NoStatement)
        => Accepted(i)

\* An accepted lower-case, padded text reached the connect.
C3_Witness ==
    \E i \in Invocations :
        /\ connectAttempts[i] > 0
        /\ Accepted(i)
        /\ RawSql(i) # Trimmed(i)
        /\ Trimmed(i) # Upper(Trimmed(i))

\* C4: once execute_query has returned, its connection is not open, on the
\* success path and on every failure path; a failed connect leaves no
\* connection; with every invocation finished the database holds none.
C4_ConnectionClosedOnReturn ==
    /\ \A i \in Invocations :
        /\ pc[i] \in {"stamp", "returned", "raised"} => (conn[i] # "open" /\ i \notin dbOpen)
        /\ conn[i] = "unbound" => i \notin dbOpen
    /\ (\A i \in Invocations : pc[i] \in {"idle", "returned", "raised"}) => dbOpen = {}

\* Two finished invocations, one failed after its connect and one
\* successful, both with their connection closed.
C4_Witness ==
    \E i, j \in Invocations :
        /\ pc[i] = "returned" /\ conn[i] = "closed" /\ fault[i] # NoFault
        /\ pc[j] = "returned" /\ conn[j] = "closed" /\ fault[j] = NoFault

\* C5: a driver error in execute_query never escapes it: execute_query
\* returns the failure dict holding the error's message.
C5_ExecuteQueryNeverRaises ==
    \A i \in Invocations :
        fault[i] # NoFault =>
            /\ pc[i] # "raised"
            /\ exc[i] = NoExc
            /\ pc[i] = "stamp" => result[i] = [success |-> FALSE, error |-> fault[i]]

\* execute_query returned after a failed connect.
C5_Witness ==
    \E i \in Invocations :
        pc[i] = "stamp" /\ fault[i] # NoFault /\ connectAttempts[i] = 1 /\ conn[i] = "unbound"

\* C6: call_tool never raises: no invocation ends with an exception.
C6_CallToolNeverRaises ==
    \A i \in Invocations : pc[i] # "raised"

\* C7: an envelope returned for the query tool with success true holds data
\* and row_count and no error; with success false it holds error and
\* neither data nor row_count.
C7_EnvelopeShape ==
    \A i \in Invocations :
        (pc[i] = "returned" /\ req[i].name = "query_employee_data") =>
            LET e == resp[i] IN
            /\ "success" \in DOMAIN e
            /\ e.success => ({"data", "row_count"} \subseteq DOMAIN e /\ "error" \notin DOMAIN e)
            /\ ~e.success => ("error" \in DOMAIN e /\ {"data", "row_count"} \cap DOMAIN e = {})

\* A success envelope and an execution-failure envelope were returned.
C7_Witness ==
    \E i, j \in Invocations :
        /\ pc[i] = "returned" /\ "success" \in DOMAIN resp[i] /\ resp[i].success
        /\ resp[i].row_count = MaxRows
        /\ pc[j] = "returned" /\ fault[j] # NoFault /\ ~resp[j].success

\* C8 as stated: every envelope returned for the query tool holds
\* executed_query, equal to the trimmed input.
C8_ExecutedQueryAlwaysPresent ==
    \A i \in Invocations :
        (pc[i] = "returned" /\ IsQueryCall(i)) =>
            /\ "executed_query" \in DOMAIN resp[i]
            /\ resp[i].executed_query = Trimmed(i)

\* C8 amended: an envelope returned for the query tool holds executed_query
\* exactly when the two rules accepted the text (execution success or
\* failure), and then it equals the trimmed input; a rejection holds none.
C8_ExecutedQueryIffAccepted ==
    \A i \in Invocations :
        (pc[i] = "returned" /\ IsQueryCall(i)) =>
            /\ "executed_query" \in DOMAIN resp[i] <=> (BeginsWithSelect(i) /\ ~HasForbidden(i))
            /\ "executed_query" \in DOMAIN resp[i] => resp[i].executed_query = Trimmed(i)

\* An execution-failure envelope holding executed_query.
C8_Witness ==
    \E i \in Invocations :
        /\ pc[i] = "returned" /\ IsQueryCall(i)
        /\ fault[i] # NoFault
        /\ "executed_query" \in DOMAIN resp[i]

\* C9: for an accepted text, the envelope's executed_query and the
\* statement given to the database are the trimmed input, unchanged.
C9_ExecutedQueryIsTrimmedInput ==
    \A i \in Invocations :
        Accepted(i) =>
            /\ pc[i] = "returned" => resp[i].executed_query = Trimmed(i)
            /\ executeAttempts[i] > 0 => statement[i] = Trimmed(i)

\* An accepted lower-case, padded text was executed and returned.
C9_Witness ==
    \E i \in Invocations :
        /\ Accepted(i) /\ pc[i] = "returned"
        /\ RawSql(i) # Trimmed(i)
        /\ Trimmed(i) # Upper(Trimmed(i))
        /\ statement[i] = Trimmed(i)
        /\ resp[i].success

\* C10: an invocation connects at most once and executes at most once, the
\* execute only on a connection that was opened, and after a failure it
\* is past the try block: no further connect or execute.
C10_NoRetry ==
    \A i \in Invocations :
        /\ connectAttempts[i] <= 1
        /\ executeAttempts[i] <= 1
        /\ executeAttempts[i] = 1 => (connectAttempts[i] = 1 /\ conn[i] # "unbound")
        /\ fault[i] # NoFault => pc[i] \in {"finally", "stamp", "returned", "raised"}
        /\ (fault[i] # NoFault /\ conn[i] = "unbound") => executeAttempts[i] = 0

\* One invocation finished after a failed execute, another after a failed connect.
C10_Witness ==
    \E i, j \in Invocations :
        /\ pc[i] = "returned" /\ fault[i] # NoFault /\ executeAttempts[i] = 1
        /\ pc[j] = "returned" /\ fault[j] # NoFault /\ connectAttempts[j] = 1
        /\ conn[j] = "unbound"

====
